---- MODULE Spec2Model ----
(***************************************************************************)
(* Wind/wave level query engine (src/src/geo_query.py, utils.py, main.py). *)
(*                                                                         *)
(* Geometry.  Regions are longitude/latitude rectangles with corners on    *)
(* whole degrees.  A longitude is one integer deg * Radix + fine, where    *)
(* one fine unit stands for half of the 1e-9 degree buffer radius of       *)
(* query_point_level (so |fine| is far below one degree); a latitude is a  *)
(* whole number of degrees.  A metric distance is a record [m, um]:        *)
(* metres and micrometres.  The azimuthal-equidistant distance of pyproj   *)
(* is computed along the parallel (east-west), along the meridian          *)
(* (north-south), or as the hypotenuse of both at kilometre resolution.    *)
(* A distance_km of a report is written in thousandths of a kilometre.     *)
(***************************************************************************)
EXTENDS Integers, Sequences, FiniteSets, TLC

\* memo is a history variable: an earlier call, kept while its source file
\* is not rewritten
VARIABLES files, cache, loads, req, res, memo

vars == <<files, cache, loads, req, res, memo>>

(***************************************************************************)
(* Units                                                                   *)
(***************************************************************************)
Radix == 1000 * 1000

\* Point(lon, lat).buffer(1e-9): the buffer radius, in fine units.
EpsFine == 2

\* One degree of arc on the WGS84 ellipsoid (+ellps=WGS84 +units=m), metres.
MetersPerDeg == 111320

\* One fine unit (0.5e-9 degree) of arc at the equator, micrometres.
UmPerFine == 56

UmPerMeter == 1000 * 1000

\* buffer_deg = (radius_km * 1.5) / 111.0 degrees, i.e. radius_m / 74000:
\* the radius in metres that makes the box half-width one degree ...
PrefilterMetersPerDeg == 74000

\* ... and one fine unit (0.5e-9 degree), in micrometres of radius
PrefilterUmPerFine == 37

\* Longitudes are periodic in 360 degrees.
FullTurn == 360

\* a missing level property: NaN in the level column of the loaded frame
NoLevel == -1

\* Python's None as a level (row.get("level") on a frame without the column)
NoneLevel == -2

\* radius_km = None
NoRadius == -1

None == "None"

(***************************************************************************)
(* Arithmetic helpers                                                      *)
(***************************************************************************)
Abs(x) == IF x < 0 THEN -x ELSE x

Min2(a, b) == IF a <= b THEN a ELSE b

RECURSIVE ISqrtIn(_, _, _)
\* greatest r in lo..hi with r * r <= n (lo * lo <= n)
ISqrtIn(n, lo, hi) ==
    IF lo >= hi THEN lo
    ELSE LET mid == (lo + hi + 1) \div 2
         IN  IF mid * mid <= n THEN ISqrtIn(n, mid, hi) ELSE ISqrtIn(n, lo, mid - 1)

ISqrt(n) == ISqrtIn(n, 0, 46340)

\* twice the cosine of a latitude the model queries at
Cos2(lat) == IF Abs(lat) = 60 THEN 1 ELSE IF Abs(lat) = 90 THEN 0 ELSE 2

Deg(c) == (c + Radix \div 2) \div Radix

Fine(c) == c - Deg(c) * Radix

Lon(d, f) == d * Radix + f

\* metric distances [m, um], um in 0 .. UmPerMeter - 1
Dist(m, u) == [m |-> m + u \div UmPerMeter, um |-> u % UmPerMeter]

DistLess(a, b) == a.m < b.m \/ (a.m = b.m /\ a.um < b.um)

DistLeq(a, b) == ~DistLess(b, a)

(***************************************************************************)
(* shapely / pyproj on rectangles                                          *)
(***************************************************************************)
\* gap in encoded longitude between c and the interval [lo, hi] (degrees)
LonGap(c, lo, hi) ==
    IF c < lo * Radix THEN lo * Radix - c
    ELSE IF c > hi * Radix THEN c - hi * Radix
    ELSE 0

\* the same on the circle: the projection is periodic in longitude
LonGapWrapped(c, lo, hi) ==
    LET c0 == c % (FullTurn * Radix)
    IN  Min2(LonGap(c0, lo, hi),
             Min2(LonGap(c0 - FullTurn * Radix, lo, hi), LonGap(c0 + FullTurn * Radix, lo, hi)))

LatGap(lat, lo, hi) ==
    IF lat < lo THEN lo - lat ELSE IF lat > hi THEN lat - hi ELSE 0

\* gdf.geometry.intersects(pt.buffer(1e-9)) for one region
intersects_buffer(lon, lat, r) ==
    /\ LatGap(lat, r.latLo, r.latHi) = 0
    /\ LonGap(lon, r.lonLo, r.lonHi) <= EpsFine

\* pt_proj.distance(geom) in the projection centred at (lon, lat)
distance(lon, lat, r) ==
    LET g  == LonGapWrapped(lon, r.lonLo, r.lonHi)
        dy == LatGap(lat, r.latLo, r.latHi)
        ew == (Deg(g) * MetersPerDeg * Cos2(lat)) \div 2
    IN  IF dy = 0 THEN Dist(ew, (Fine(g) * UmPerFine * Cos2(lat)) \div 2)
        ELSE IF g = 0 THEN Dist(dy * MetersPerDeg, 0)
        ELSE Dist(1000 * ISqrt((ew \div 1000) * (ew \div 1000)
                               + ((dy * MetersPerDeg) \div 1000) * ((dy * MetersPerDeg) \div 1000)), 0)

(***************************************************************************)
(* Data sources.  A source file holds a sequence of features; the level    *)
(* of a feature that carries no "level" property is NoLevel (NaN in the    *)
(* loaded frame).  All geometries below are valid, so fix_invalid_geometry *)
(* returns them unchanged.                                                 *)
(***************************************************************************)
Rect(lonLo, lonHi, latLo, latHi, level, name) ==
    [lonLo |-> lonLo, lonHi |-> lonHi, latLo |-> latLo, latHi |-> latHi,
     level |-> level, name |-> name]

\* levels 5, 9, 7 nested around (20, 0); only 5 and 7 reach latitude 60
Nested ==
    << Rect(10, 30, -10, 70, 5, "outer"),
       Rect(18, 22, -10, 10, 9, "core"),
       Rect(15, 25, -10, 70, 7, "middle") >>

\* two levels sharing the meridian 20, and a second area of level 5
Adjacent ==
    << Rect(20, 30, -10, 70, 7, "east"),
       Rect(10, 20, -10, 70, 5, "west"),
       Rect(40, 50, -10, 70, 5, "far") >>

\* a region that ends on the 0/360 seam, and one in the north only
Seam ==
    << Rect(350, 360, -10, 70, 4, "seam"),
       Rect(10, 20, 50, 70, 8, "north") >>

\* one feature without the level property
PartLevel ==
    << Rect(10, 20, -10, 70, 5, "rated"),
       Rect(20, 30, -10, 70, NoLevel, "unrated") >>

\* no feature has the level property: the frame has no level column
Unrated ==
    << Rect(10, 20, -10, 70, NoLevel, "a"),
       Rect(15, 30, -10, 70, NoLevel, "b") >>

\* two levels that end on the same meridian, 30
Stacked ==
    << Rect(10, 30, -10, 70, 3, "wide"),
       Rect(20, 30, -10, 70, 6, "narrow") >>

Catalogue == << Nested, Adjacent, Seam, PartLevel, Unrated, Stacked >>

\* a file that gpd.read_file cannot read or parse
Unreadable == 0

Rows(gdf) == 1 .. Len(gdf)

\* 'level' in gdf.columns
HasLevelColumn(gdf) == \E i \in Rows(gdf) : gdf[i].level # NoLevel

(***************************************************************************)
(* Python outcomes: a returned value or a raised exception                 *)
(***************************************************************************)
Return(v) == [exc |-> None, val |-> v]

Raise(e) == [exc |-> e, val |-> None]

\* CRS.from_proj4("+proj=aeqd +lat_0={lat} ..."): PROJ rejects |lat_0| > 90
crs_from_proj4_ok(lat) == -90 <= lat /\ lat <= 90

(***************************************************************************)
(* query_point_level                                                       *)
(***************************************************************************)
\* gdf_proj = gdf.to_crs(local_crs) raises when a geometry of the frame
\* cannot be projected; bad is the set of rows whose geometry cannot
to_crs_ok(rows, bad) == rows \cap bad = {}

\* containing = gdf[gdf.geometry.intersects(pt_buffer)]
direct_matches(lon, lat, gdf) ==
    {i \in Rows(gdf) : intersects_buffer(lon, lat, gdf[i])}

\* mutant of near_zero: the threshold is not applied
near_zero_unbounded(lon, lat, gdf, threshold) == Rows(gdf)

\* near_zero = gdf_proj[gdf_proj['dist_to_point'] < distance_threshold_m]
near_zero(lon, lat, gdf, threshold) ==
    {i \in Rows(gdf) : DistLess(distance(lon, lat, gdf[i]), threshold)}

\* the matched set after the boundary fallback (lines 40-63), given that the
\* local CRS could be constructed
containing(lon, lat, gdf, threshold, bad) ==
    IF direct_matches(lon, lat, gdf) # {} THEN direct_matches(lon, lat, gdf)
    ELSE IF ~to_crs_ok(Rows(gdf), bad) THEN {}
    ELSE near_zero(lon, lat, gdf, threshold)

\* mutant of highest: the sort is ascending
highest_ascending(gdf, rows) ==
    LET rated == {i \in rows : gdf[i].level # NoLevel}
        pool  == IF rated = {} THEN rows ELSE rated
        low   == {i \in pool : \A j \in pool : gdf[i].level <= gdf[j].level}
    IN  CHOOSE i \in low : \A j \in low : i <= j

\* containing.sort_values('level', ascending=False).iloc[0]: NaN sorts last,
\* equal levels keep the frame's order
highest(gdf, rows) ==
    LET rated == {i \in rows : gdf[i].level # NoLevel}
        pool  == IF rated = {} THEN rows ELSE rated
        top   == {i \in pool : \A j \in pool : gdf[j].level <= gdf[i].level}
    IN  CHOOSE i \in top : \A j \in top : i <= j

\* row.drop("geometry").to_dict(): the columns of the row but its geometry
properties(gdf, i) ==
    IF HasLevelColumn(gdf) THEN [level |-> gdf[i].level, name |-> gdf[i].name]
    ELSE [name |-> gdf[i].name]

\* mutant of matched: the row is taken from the frame, not from the matches
matched_first_row(gdf, i) ==
    LET level_val == IF HasLevelColumn(gdf) THEN gdf[1].level ELSE NoneLevel
    IN  IF level_val = NoLevel THEN Raise("ValueError")
        ELSE Return([in_polygon   |-> TRUE,
                     level        |-> level_val,
                     matched_info |-> {[level      |-> level_val,
                                        properties |-> properties(gdf, 1)]}])

\* the dictionary returned for the winning row (lines 73-86 and 92-105)
matched(gdf, i) ==
    LET level_val == IF HasLevelColumn(gdf) THEN gdf[i].level ELSE NoneLevel
    IN  IF level_val = NoLevel THEN Raise("ValueError")
        ELSE Return([in_polygon   |-> TRUE,
                     level        |-> level_val,
                     matched_info |-> {[level      |-> level_val,
                                        properties |-> properties(gdf, i)]}])

NotFound == [in_polygon |-> FALSE, level |-> NoneLevel, matched_info |-> {}]

\* matched_info is a set: empty for None, else the one dictionary
query_point_level(lon, lat, gdf, distance_threshold_m, bad) ==
    LET rows == containing(lon, lat, gdf, distance_threshold_m, bad)
    IN  IF direct_matches(lon, lat, gdf) = {} /\ ~crs_from_proj4_ok(lat)
        THEN Raise("CRSError")
        ELSE IF rows = {} THEN Return(NotFound)
        ELSE IF Cardinality(rows) = 1 THEN matched(gdf, CHOOSE i \in rows : TRUE)
        ELSE IF ~HasLevelColumn(gdf) THEN Raise("KeyError")
        ELSE matched(gdf, highest(gdf, rows))

(***************************************************************************)
(* query_level_min_distance                                                *)
(***************************************************************************)
RECURSIVE SortedSeq(_)
\* sorted(...) of a set of integers
SortedSeq(S) ==
    IF S = {} THEN << >>
    ELSE LET least == CHOOSE x \in S : \A y \in S : x <= y
         IN  << least >> \o SortedSeq(S \ {least})

\* mutant of levels: one entry per row, in the frame's order
levels_per_row(gdf) == [i \in Rows(gdf) |-> gdf[i].level]

\* levels = sorted(gdf['level'].dropna().unique())
levels(gdf) == SortedSeq({gdf[i].level : i \in Rows(gdf)} \ {NoLevel})

\* gdf.intersects(box(lon - buffer_deg, lat - buffer_deg, lon + buffer_deg,
\* lat + buffer_deg)) for one region, in un-wrapped longitude
intersects_bbox(lon, lat, radius_m, r) ==
    LET g == LonGap(lon, r.lonLo, r.lonHi)
    IN  /\ DistLeq(Dist(Deg(g) * PrefilterMetersPerDeg, Fine(g) * PrefilterUmPerFine),
                   Dist(radius_m, 0))
        /\ LatGap(lat, r.latLo, r.latHi) * PrefilterMetersPerDeg <= radius_m

\* gdf_filtered (lines 147-154)
gdf_filtered(lon, lat, gdf, radius_m) ==
    IF radius_m = NoRadius THEN Rows(gdf)
    ELSE {i \in Rows(gdf) : intersects_bbox(lon, lat, radius_m, gdf[i])}

\* mutant of union_distance: the distance to the last geometry, not the union
union_distance_last(lon, lat, gdf, rows) ==
    distance(lon, lat, gdf[CHOOSE i \in rows : \A j \in rows : j <= i])

\* pt_proj.distance(unary_union(level_gdf_proj.geometry)), rows non-empty
union_distance(lon, lat, gdf, rows) ==
    LET d(i) == distance(lon, lat, gdf[i])
    IN  d(CHOOSE i \in rows : \A j \in rows : DistLeq(d(i), d(j)))

\* 10 ^ (3 - decimal_places): the rounding step in metres
Quantum(decimal_places) ==
    IF decimal_places = 0 THEN 1000
    ELSE IF decimal_places = 1 THEN 100
    ELSE IF decimal_places = 2 THEN 10
    ELSE 1

\* round(dist_m / 1000.0, decimal_places), in thousandths of a kilometre
\* (round half to even), decimal_places in 0 .. 3
round_km(d, decimal_places) ==
    LET q    == Quantum(decimal_places)
        k    == d.m \div q
        rem  == [m |-> d.m % q, um |-> d.um]
        half == IF q = 1 THEN [m |-> 0, um |-> UmPerMeter \div 2] ELSE [m |-> q \div 2, um |-> 0]
        up   == DistLess(half, rem) \/ (rem = half /\ k % 2 = 1)
    IN  IF up THEN (k + 1) * q ELSE k * q

\* mutant of beyond_radius: the exact cutoff is missing
beyond_radius_never(dist_m, radius_m) == FALSE

\* radius_m is not None and dist_m > radius_m
beyond_radius(dist_m, radius_m) ==
    radius_m # NoRadius /\ DistLess(Dist(radius_m, 0), dist_m)

RECURSIVE level_loop(_, _, _, _, _, _, _)
\* the loop over levels (lines 156-189): the entries appended for the levels
\* lv[n], lv[n+1], ...
level_loop(lv, n, lon, lat, gdf, radius_m, opts) ==
    IF n > Len(lv) THEN << >>
    ELSE LET level_gdf == {i \in gdf_filtered(lon, lat, gdf, radius_m) : gdf[i].level = lv[n]}
             rest      == level_loop(lv, n + 1, lon, lat, gdf, radius_m, opts)
             dist_m    == union_distance(lon, lat, gdf, level_gdf)
         IN  IF level_gdf = {} THEN rest
             ELSE IF ~to_crs_ok(level_gdf, opts.bad) THEN rest
             ELSE IF beyond_radius(dist_m, radius_m) THEN rest
             ELSE << [level |-> lv[n], distance_km |-> round_km(dist_m, opts.decimal_places)] >>
                  \o rest

\* radius_m stands for radius_km * 1000; opts = [decimal_places, bad]
query_level_min_distance(lon, lat, gdf, radius_m, opts) ==
    IF ~crs_from_proj4_ok(lat) THEN Raise("CRSError")
    ELSE IF ~HasLevelColumn(gdf) THEN Raise("KeyError")
    ELSE Return(level_loop(levels(gdf), 1, lon, lat, gdf, radius_m, opts))

(***************************************************************************)
(* Loading, the cache and the query entry points                           *)
(***************************************************************************)
\* mutant of convert_lon_to_360: the longitude is passed through
convert_lon_unchanged(lon) == lon

\* utils.convert_lon_to_360, on encoded longitudes
convert_lon_to_360(lon) ==
    IF lon < 0 THEN lon + FullTurn * Radix ELSE lon

\* utils.load_wind_level_gdf: the frame read from a file's content
load_wind_level_gdf(content) ==
    IF content = Unreadable THEN Raise("DataSourceError")
    ELSE Return(Catalogue[content])

NotCalled == [exc |-> "NotCalled", val |-> None]

\* mutant of cache_miss: every call loads
cache_miss_always(c, cache_key) == TRUE

\* cache_key not in _GDF_CACHE
cache_miss(c, cache_key) == cache_key \notin DOMAIN c

\* a query that projected the cached frame itself (to_crs(..., inplace=True)):
\* the stored geometries become offsets from the query point
frame_projected_in_place(gdf, a) ==
    [i \in Rows(gdf) |-> [gdf[i] EXCEPT !.lonLo = @ - Deg(a.lon), !.lonHi = @ - Deg(a.lon)]]

\* the cached frame once both queries have run on it: they project, repair
\* and sort new frames (gdf.to_crs returns a new frame, containing.copy(),
\* level_gdf ... .copy()) and leave the frame they were given as it was
frame_after_queries(gdf, a) == gdf

\* geo_query.query_wind_level_info on the files fs and the cache c: the cache
\* afterwards, whether a load completed, and the outcomes of the two queries
\* and of the call
query_wind_level_info(a, fs, c) ==
    LET miss   == cache_miss(c, a.geojson_path)
        loaded == load_wind_level_gdf(fs[a.geojson_path])
        c2     == IF miss /\ loaded.exc = None
                  THEN (a.geojson_path :> loaded.val) @@ c ELSE c
        gdf    == c2[a.geojson_path]
        c3     == [c2 EXCEPT ![a.geojson_path] = frame_after_queries(gdf, a)]
        point_level_info == query_point_level(a.lon, a.lat, gdf, a.distance_threshold_m, a.bad)
        distance_info    == query_level_min_distance(a.lon, a.lat, gdf, a.radius_m,
                                [decimal_places |-> a.decimal_places, bad |-> a.bad])
    IN  IF miss /\ loaded.exc # None
        THEN [cache |-> c, loaded |-> FALSE, point |-> NotCalled, dist |-> NotCalled,
              out |-> Raise(loaded.exc)]
        ELSE IF point_level_info.exc # None
        THEN [cache |-> c3, loaded |-> miss, point |-> point_level_info, dist |-> NotCalled,
              out |-> Raise(point_level_info.exc)]
        ELSE IF distance_info.exc # None
        THEN [cache |-> c3, loaded |-> miss, point |-> point_level_info, dist |-> distance_info,
              out |-> Raise(distance_info.exc)]
        ELSE [cache |-> c3, loaded |-> miss, point |-> point_level_info, dist |-> distance_info,
              out |-> Return([query_point     |-> [lon |-> a.lon, lat |-> a.lat],
                              current_level   |-> point_level_info.val,
                              level_distances |-> distance_info.val])]

\* main.query_wind_level: the longitude is converted, then the query runs
\* (radius, threshold and decimal places as resolved from the configuration)
query_wind_level(a, fs, c) ==
    query_wind_level_info([a EXCEPT !.lon = convert_lon_to_360(a.lon)], fs, c)

(***************************************************************************)
(* Bounds and input sets                                                   *)
(***************************************************************************)
\* completed loads counted per source before the model stops counting
MaxLoads == 3

Sources == {"a.geojson", "b.geojson"}

OneMeter == [m |-> 1, um |-> 0]

FiveMeters == [m |-> 5, um |-> 0]

\* requests of the single-call specification
FnLons ==
    { Lon(15, 0), Lon(20, -3), Lon(20, -1), Lon(20, 0), Lon(30, 1), Lon(30, 3),
      Lon(30, 20000), Lon(31, 0), Lon(35, 0), Lon(0, 0), Lon(1, 0), Lon(-10, 0), Lon(-340, 0),
      Lon(360, 0), Lon(400, 0), Lon(-400, 0) }

FnLats == {0, 60, 95}

FnRadii == {NoRadius, 1, 100000, 556800}

FnArgs ==
    [lon : FnLons, lat : FnLats, geojson_path : {"a.geojson"}, radius_m : FnRadii,
     distance_threshold_m : {OneMeter, FiveMeters}, decimal_places : {0, 3},
     bad : {{}, {1}, {2}}]

\* requests of the process specification
ProcArgs ==
    [lon : {Lon(-340, 0), Lon(35, 0)}, lat : {0, 95}, geojson_path : Sources,
     radius_m : {NoRadius, 100000}, distance_threshold_m : {OneMeter},
     decimal_places : {3}, bad : {{}}]

\* contents of the source files of the process specification: unreadable,
\* Nested and PartLevel
ProcContents == {Unreadable, 1, 4}

\* requests of the repeated-query specification
DetArgs ==
    [lon : {Lon(-340, 0), Lon(35, 0)}, lat : {0}, geojson_path : Sources,
     radius_m : {100000}, distance_threshold_m : {OneMeter},
     decimal_places : {3}, bad : {{}}]

NoRequest ==
    [lon |-> 0, lat |-> 0, geojson_path |-> "a.geojson", radius_m |-> NoRadius,
     distance_threshold_m |-> OneMeter, decimal_places |-> 3, bad |-> {}]

\* the last call: the outcomes of query_point_level, query_level_min_distance
\* and the call itself, whether the cache held the source, and the content
\* of the source file at the time of the call
NoResult ==
    [point |-> NotCalled, dist |-> NotCalled, out |-> NotCalled, hit |-> FALSE,
     content |-> Unreadable]

\* no call is remembered
NoMemo == [set |-> FALSE, between |-> FALSE, a |-> NoRequest, res |-> NoResult]

(***************************************************************************)
(* The state machine                                                       *)
(***************************************************************************)
\* one call of query_wind_level
QueryWindLevel(a) ==
    /\ loads[a.geojson_path] < MaxLoads
    /\ LET r == query_wind_level(a, files, cache)
       IN  /\ cache' = r.cache
           /\ loads' = IF r.loaded THEN [loads EXCEPT ![a.geojson_path] = @ + 1] ELSE loads
           /\ res' = [point |-> r.point, dist |-> r.dist, out |-> r.out,
                       hit |-> ~cache_miss(cache, a.geojson_path),
                       content |-> files[a.geojson_path]]
    /\ req' = a
    /\ UNCHANGED files

\* the environment rewrites a source file
ModifySource(s, content) ==
    /\ files[s] # content
    /\ files' = [files EXCEPT ![s] = content]
    /\ UNCHANGED <<cache, loads, req, res>>

Init ==
    /\ files \in [Sources -> ProcContents]
    /\ cache = << >>
    /\ loads = [s \in Sources |-> 0]
    /\ req = NoRequest
    /\ res = NoResult
    /\ memo = NoMemo

Call == \E a \in ProcArgs : QueryWindLevel(a) /\ UNCHANGED memo

Modify ==
    \E s \in Sources, content \in ProcContents : ModifySource(s, content) /\ UNCHANGED memo

Next == Call \/ Modify

Spec == Init /\ [][Next]_vars

\* a single call on a fresh process, over every source of the catalogue
InitFn ==
    /\ \E k \in 1 .. Len(Catalogue) : files = [s \in Sources |-> k]
    /\ cache = << >>
    /\ loads = [s \in Sources |-> 0]
    /\ req = NoRequest
    /\ res = NoResult
    /\ memo = NoMemo

CallFn == \E a \in FnArgs : res = NoResult /\ QueryWindLevel(a) /\ UNCHANGED memo

SpecFn == InitFn /\ [][CallFn]_vars

\* repeated queries: any call may be remembered, and is forgotten when its
\* source file is rewritten; between records that another request ran since
RememberCall ==
    \E a \in DetArgs :
        /\ QueryWindLevel(a)
        /\ memo' = [set |-> TRUE, between |-> FALSE, a |-> a, res |-> res']

CallDet ==
    \E a \in DetArgs :
        /\ QueryWindLevel(a)
        /\ memo' = IF memo.set /\ a # memo.a THEN [memo EXCEPT !.between = TRUE] ELSE memo

ModifyDet ==
    \E s \in Sources, content \in ProcContents :
        /\ ModifySource(s, content)
        /\ memo' = IF memo.set /\ memo.a.geojson_path = s THEN NoMemo ELSE memo

NextDet == RememberCall \/ CallDet \/ ModifyDet

SpecDet == Init /\ [][NextDet]_vars

(***************************************************************************)
(* Properties                                                              *)
(***************************************************************************)
\* the longitude the last call queried at
QLon == convert_lon_to_360(req.lon)

\* the store the last call queried (defined once the source is cached)
QGdf == cache[req.geojson_path]

Queried == req.geojson_path \in DOMAIN cache /\ res.point.exc # "NotCalled"

PointReturned == Queried /\ res.point.exc = None

DistReturned == Queried /\ res.dist.exc = None

\* the regions the classification matched: directly, or by the fallback
MatchedRows == containing(QLon, req.lat, QGdf, req.distance_threshold_m, req.bad)

RatedLevels(rows) == {QGdf[i].level : i \in rows} \ {NoLevel}

Interior(lon, lat, r) ==
    /\ r.lonLo * Radix < lon /\ lon < r.lonHi * Radix
    /\ r.latLo < lat /\ lat < r.latHi

\* the point lies in the closed rectangle r
Inside(lon, lat, r) ==
    LonGap(lon, r.lonLo, r.lonHi) = 0 /\ LatGap(lat, r.latLo, r.latHi) = 0

IsLevelOf(i) ==
    /\ res.point.exc = None
    /\ res.point.val.in_polygon
    /\ res.point.val.level = QGdf[i].level
    /\ res.point.val.matched_info # {}

\* C2 as claimed: a point strictly interior to a region R of level L and in
\* no other region is classified in_polygon with level L and a matched_info;
\* a point matching no region is classified not found.
C2_AsClaimed ==
    Queried =>
        /\ \A i \in Rows(QGdf) :
              ( /\ Interior(QLon, req.lat, QGdf[i])
                /\ QGdf[i].level # NoLevel
                /\ \A j \in Rows(QGdf) \ {i} : ~Inside(QLon, req.lat, QGdf[j]) )
              => IsLevelOf(i)
        /\ (PointReturned /\ MatchedRows = {}) => res.point.val = NotFound

\* C2 (amended): a point strictly interior to a region R of level L whose
\* 1e-9 degree buffer meets no other region is classified in_polygon with
\* level L and a matched_info; a point matching no region, directly or by the
\* boundary fallback, is classified not found.
C2_Containment ==
    Queried =>
        /\ \A i \in Rows(QGdf) :
              ( /\ Interior(QLon, req.lat, QGdf[i])
                /\ QGdf[i].level # NoLevel
                /\ \A j \in Rows(QGdf) \ {i} : ~intersects_buffer(QLon, req.lat, QGdf[j]) )
              => IsLevelOf(i)
        /\ (PointReturned /\ MatchedRows = {}) => res.point.val = NotFound

\* a point interior to the second region of a store only, close to another
\* region but farther than the buffer radius, was given the second region's level
C2_Witness ==
    /\ Queried
    /\ Interior(QLon, req.lat, QGdf[2])
    /\ MatchedRows = {2}
    /\ LonGap(QLon, QGdf[1].lonLo, QGdf[1].lonHi) \in (EpsFine + 1) .. Radix
    /\ IsLevelOf(2)
    /\ QGdf[1].level \notin {NoLevel, QGdf[2].level}

\* the entries of the distance report of the last call
Report == res.dist.val

EntriesFor(l) == {k \in 1 .. Len(Report) : Report[k].level = l}

RowsOfLevel(l) == {i \in Rows(QGdf) : QGdf[i].level = l}

Classified == res.out.exc = None /\ res.out.val.current_level.in_polygon

CurrentLevel == res.out.val.current_level.level

\* a distance_km (thousandths of a kilometre) is at most a metric distance
KmLeq(distance_km, d) == DistLeq(Dist(distance_km, 0), d)

C4_SortedUnique ==
    DistReturned =>
        /\ \A i, j \in 1 .. Len(Report) : i < j => Report[i].level < Report[j].level
        /\ \A i \in 1 .. Len(Report) : RowsOfLevel(Report[i].level) # {}

\* a store with two regions of one level, queried with a radius: both of its
\* levels are reported once
C4_Witness ==
    /\ DistReturned
    /\ Len(Report) = 2
    /\ \E i, j \in Rows(QGdf) : i # j /\ QGdf[i].level = QGdf[j].level
    /\ req.radius_m # NoRadius

\* C5 as claimed: with a radius, every entry has distance_km <= radius_km.
C5_AsClaimed ==
    (DistReturned /\ req.radius_m # NoRadius) =>
        \A k \in 1 .. Len(Report) : Report[k].distance_km <= req.radius_m

\* C5 (amended): with a radius, every entry has a distance_km of at most
\* radius_km rounded to decimal_places, and a level whose distance exceeds
\* radius_km has no entry.
C5_RadiusCutoff ==
    (DistReturned /\ req.radius_m # NoRadius) =>
        /\ \A k \in 1 .. Len(Report) :
              Report[k].distance_km <= round_km(Dist(req.radius_m, 0), req.decimal_places)
        /\ \A l \in RatedLevels(Rows(QGdf)) :
              DistLess(Dist(req.radius_m, 0), union_distance(QLon, req.lat, QGdf, RowsOfLevel(l)))
                  => EntriesFor(l) = {}

\* an entry within the radius was rounded up past it
C5_Witness ==
    /\ DistReturned
    /\ req.radius_m # NoRadius
    /\ \E k \in 1 .. Len(Report) : Report[k].distance_km > req.radius_m

Called == res.out.exc # "NotCalled"

Returned == res.out.exc = None

\* C6 as claimed: for every input longitude the converted longitude lies in
\* [0, 360) and converting it again changes nothing; the query_point.lon of
\* every returned result lies in [0, 360).
C6_AsClaimed ==
    Called =>
        /\ 0 <= QLon /\ QLon < FullTurn * Radix
        /\ convert_lon_to_360(QLon) = QLon
        /\ Returned => /\ 0 <= res.out.val.query_point.lon
                       /\ res.out.val.query_point.lon < FullTurn * Radix

\* C6 (amended): for every input longitude in [-360, 360] the converted
\* longitude lies in [0, 360], for every input of at least -360 converting it
\* again changes nothing, and the query_point.lon of every returned result is
\* the converted longitude.
C6_Normalization ==
    Called =>
        /\ (-FullTurn * Radix <= req.lon /\ req.lon <= FullTurn * Radix)
              => (0 <= QLon /\ QLon <= FullTurn * Radix)
        /\ (-FullTurn * Radix <= req.lon) => convert_lon_to_360(QLon) = QLon
        /\ (req.lon < 0) => QLon = req.lon + FullTurn * Radix
        /\ Returned => res.out.val.query_point.lon = QLon

\* a negative longitude was converted and the point found in a region
C6_Witness ==
    /\ Returned
    /\ req.lon < 0
    /\ res.out.val.query_point.lon = req.lon + FullTurn * Radix
    /\ res.out.val.current_level.in_polygon

\* C7: a source is loaded at most once; once a source is cached its store is
\* never replaced, removed or reloaded, whatever is queried and however the
\* source file changes.
C7_LoadOnce ==
    [][ /\ \A s \in Sources : loads'[s] <= 1
        /\ \A s \in DOMAIN cache :
              /\ s \in DOMAIN cache'
              /\ cache'[s] = cache[s]
              /\ loads'[s] = loads[s] ]_vars

\* a query was answered from the cache while the source file held something
\* else than the cached store, and the other source is cached too
C7_Witness ==
    /\ Returned
    /\ res.hit
    /\ \/ res.content = Unreadable
       \/ res.content # Unreadable /\ Catalogue[res.content] # QGdf
    /\ DOMAIN cache = Sources
    /\ \A s \in Sources : loads[s] = 1

\* every feature of the store carries a level
FullyRated(gdf) == \A i \in Rows(gdf) : gdf[i].level # NoLevel

\* a projection could not be constructed or applied during the last call
ProjectionFailed ==
    \/ ~crs_from_proj4_ok(req.lat)
    \/ req.bad \cap Rows(QGdf) # {}

\* C8 as claimed: a failure to construct or apply the local projection never
\* aborts the query: the call still returns a complete result, and a failed
\* fallback yields the not-found classification.
C8_AsClaimed ==
    (Queried /\ FullyRated(QGdf) /\ ProjectionFailed) =>
        /\ Returned
        /\ (direct_matches(QLon, req.lat, QGdf) = {} /\ ~to_crs_ok(Rows(QGdf), req.bad))
              => res.out.val.current_level = NotFound

\* C9 as claimed: a source in which a feature lacks the level is never loaded
\* into the cache and never answers a query.
C9_AsClaimed ==
    /\ \A s \in DOMAIN cache : FullyRated(cache[s])
    /\ (Returned /\ res.content # Unreadable /\ ~res.hit) => FullyRated(Catalogue[res.content])

\* C10 as claimed: a query whose latitude is outside [-90, 90] raises before
\* any classification or distance computation and returns no result.
C10_AsClaimed ==
    (Called /\ (req.lat < -90 \/ req.lat > 90)) =>
        /\ ~Returned
        /\ res.point = NotCalled
        /\ res.dist = NotCalled

\* C11: a query made again with the same arguments, while its source file has
\* not been rewritten since the first, has the same outcome (the same result,
\* or the same error), whatever was queried in between and whether the store
\* was freshly loaded or served from the cache; and no query changes a cached
\* store.
C11_Determinism ==
    /\ []( (memo.set /\ req = memo.a) =>
              /\ res.out = memo.res.out
              /\ res.point = memo.res.point
              /\ res.dist = memo.res.dist )
    /\ [][ \A s \in DOMAIN cache : s \in DOMAIN cache' /\ cache'[s] = cache[s] ]_vars

\* a query that loaded its store was repeated after a different request and
\* answered from the cache with the same classification
C11_Witness ==
    /\ memo.set /\ memo.between
    /\ req = memo.a
    /\ ~memo.res.hit /\ res.hit
    /\ Classified
    /\ res.out = memo.res.out

\* the distance report of the last call had it been made without a radius
Unfiltered ==
    query_level_min_distance(QLon, req.lat, QGdf, NoRadius,
        [decimal_places |-> req.decimal_places, bad |-> req.bad])

\* C12 as claimed: the bounding-box prefilter discards no region whose
\* distance to the query point is at most radius_km, so every level of the
\* unfiltered report whose distance is at most radius_km is in the
\* radius-filtered report with the same distance, also near the 0/360 seam
\* and at high latitudes (stated for longitudes in [0, 360) and queries in
\* which every region projects).
C12_AsClaimed ==
    ( /\ DistReturned
      /\ req.radius_m # NoRadius
      /\ 0 <= QLon /\ QLon < FullTurn * Radix
      /\ req.bad = {} ) =>
        /\ \A i \in Rows(QGdf) :
              DistLeq(distance(QLon, req.lat, QGdf[i]), Dist(req.radius_m, 0))
                  => i \in gdf_filtered(QLon, req.lat, QGdf, req.radius_m)
        /\ \A k \in 1 .. Len(Unfiltered.val) :
              DistLeq(union_distance(QLon, req.lat, QGdf, RowsOfLevel(Unfiltered.val[k].level)),
                      Dist(req.radius_m, 0))
                  => \E j \in 1 .. Len(Report) : Report[j] = Unfiltered.val[k]

\* the regions that meet the 1e-9 degree buffer of the queried point
Direct == direct_matches(QLon, req.lat, QGdf)

\* the regions at a planar distance within the threshold of the queried point
WithinThreshold ==
    {i \in Rows(QGdf) : DistLeq(distance(QLon, req.lat, QGdf[i]), req.distance_threshold_m)}

\* the regions at a planar distance below the threshold
BelowThreshold ==
    {i \in Rows(QGdf) : DistLess(distance(QLon, req.lat, QGdf[i]), req.distance_threshold_m)}

\* the classification is a match of one of rows, of the highest level among rows
MatchAmong(rows) ==
    /\ res.point.val.in_polygon
    /\ \E i \in rows :
          /\ \E mi \in res.point.val.matched_info : mi.properties.name = QGdf[i].name
          /\ QGdf[i].level # NoLevel => res.point.val.level = QGdf[i].level
    /\ \A l \in RatedLevels(rows) : l <= res.point.val.level

\* C13 as claimed: the fallback is entered only when the direct test matches
\* nothing; then every region within the threshold is a match, so the result
\* is in_polygon with the highest level among them, and a point farther than
\* the threshold from every region is not found.
C13_AsClaimed ==
    PointReturned =>
        /\ Direct # {} => MatchAmong(Direct)
        /\ (Direct = {} /\ WithinThreshold # {}) => MatchAmong(WithinThreshold)
        /\ (Direct = {} /\ WithinThreshold = {}) => res.point.val = NotFound

\* C13 (amended): the fallback is entered only when the direct test matches
\* nothing; then, if the store can be projected, every region at a distance
\* below the threshold is a match, so the result is in_polygon with the
\* highest level among them, and a point at the threshold or farther from
\* every region is not found; if the projection cannot be applied the point
\* is not found.
C13_BoundaryFallback ==
    PointReturned =>
        /\ Direct # {} => MatchAmong(Direct)
        /\ (Direct = {} /\ to_crs_ok(Rows(QGdf), req.bad) /\ BelowThreshold # {})
              => MatchAmong(BelowThreshold)
        /\ (Direct = {} /\ to_crs_ok(Rows(QGdf), req.bad) /\ BelowThreshold = {})
              => res.point.val = NotFound
        /\ (Direct = {} /\ ~to_crs_ok(Rows(QGdf), req.bad)) => res.point.val = NotFound

\* a point outside every region, within the threshold of two regions of
\* different levels, was given the higher level
C13_Witness ==
    /\ PointReturned
    /\ Direct = {}
    /\ Cardinality(BelowThreshold) = 2
    /\ Cardinality(RatedLevels(BelowThreshold)) = 2
    /\ MatchAmong(BelowThreshold)

====
